---- MODULE Spec2Model ----
(***************************************************************************)
(* Model of the Fortnox transaction statement converter:                   *)
(*   converter.py  : _parse_numeric, transform_data, export_csv            *)
(*   riksbanken.py : _previous_month_end, get_fx_rate                      *)
(*   app.py        : the Streamlit script (mapping, FX step, transform,    *)
(*                   date filter, export)                                  *)
(*                                                                         *)
(* Representation.                                                         *)
(*  - A Python str is a sequence of one-character tokens.  Non-ASCII       *)
(*    characters are named: "U+2212" (minus sign), "U+2013" (en dash),     *)
(*    "U+00A0" (no-break space), "U+00E5" (a with ring).                   *)
(*  - A float is a tagged record: [k |-> "num", v |-> n] stands for the    *)
(*    number n / Scale (fixed point, four decimals), [k |-> "nan"] for     *)
(*    NaN and [k |-> "none"] for Python's None.  -0.0 is identified with   *)
(*    0.0.                                                                 *)
(*  - A date is a record [y, m, d]; date arithmetic goes through the       *)
(*    proleptic Gregorian ordinal, as datetime.date does.                  *)
(***************************************************************************)
EXTENDS Integers, Sequences, FiniteSets, TLC

VARIABLES
    pc,               \* position of the script run / of the function under check
    series_in,        \* _parse_numeric: the input series (sequence of cells)
    series_out,       \* _parse_numeric: the returned series
    plain_in,         \* the plain ASCII spelling series_in was written from
    currency,         \* the source currency selected
    ref_date,         \* the reference date entered
    resp,             \* the answer of the rate service to the request in flight
    fx_result,        \* what get_fx_rate returned or raised, and its request
    df,               \* the uploaded table: its columns and its rows
    mapping,          \* Fortnox field -> source column
    fx_rate,          \* the rate handed to transform_data (None: no FX step)
    result_df,        \* what transform_data returned or raised
    csv_bytes,        \* what export_csv returned
    calls,            \* the functions the run has called, in order
    sorted_items,     \* the buckets as the sortable widget returns them
    mapping_complete, \* every required field has exactly one column
    presets,          \* the saved presets
    manual_rate,      \* the text of the manual rate field
    date_from,        \* the From date of the filter
    date_to,          \* the To date of the filter
    filtered_df       \* the records the filter retained

numVars == <<series_in, series_out, plain_in>>
fxVars == <<currency, ref_date, resp, fx_result>>
convVars == <<df, mapping, fx_rate, result_df, csv_bytes, calls>>
appVars == <<sorted_items, mapping_complete, presets, manual_rate, date_from, date_to,
             filtered_df>>
vars == <<pc, numVars, fxVars, convVars, appVars>>

\* ------------------------------------------------------------------ bounds

\* Longest plain numeric string drawn for _parse_numeric.
MaxPlainLen == 4
\* Longest arbitrary string drawn for _parse_numeric.
MaxRawLen == 3
\* Years the reference dates are drawn from.
FirstYear == 2023
LastYear == 2024
\* Longest list of arbitrary (possibly malformed) observations drawn.
MaxObsLen == 2
\* Most rows of a raw table drawn for transform_data.
MaxRows == 2
\* Most records of a dataset drawn for export_csv.
MaxRecords == 2

\* ------------------------------------------------------------- characters

Range(f) == {f[i] : i \in DOMAIN f}

\* All sequences over S of length at most n.
SeqsUpTo(S, n) == UNION {[1..k -> S] : k \in 0..n}

Digits == {"0", "1", "2", "3", "4", "5", "6", "7", "8", "9"}

DigitVal(c) ==
    CASE c = "0" -> 0 [] c = "1" -> 1 [] c = "2" -> 2 [] c = "3" -> 3
      [] c = "4" -> 4 [] c = "5" -> 5 [] c = "6" -> 6 [] c = "7" -> 7
      [] c = "8" -> 8 [] c = "9" -> 9

DigitChar(n) ==
    CASE n = 0 -> "0" [] n = 1 -> "1" [] n = 2 -> "2" [] n = 3 -> "3"
      [] n = 4 -> "4" [] n = 5 -> "5" [] n = 6 -> "6" [] n = 7 -> "7"
      [] n = 8 -> "8" [] n = 9 -> "9"

UMINUS == "U+2212"
ENDASH == "U+2013"
NBSP == "U+00A0"

\* Characters str.strip() removes (str.isspace): the no-break space is one.
Whitespace == {" ", NBSP}

\* A missing cell (NaN in an object column read with dtype=str).
NA == <<"<NA>">>

\* .astype(str): a missing cell becomes the string "nan".
AsStr(cell) == IF cell = NA THEN <<"n", "a", "n">> ELSE cell

\* str.replace(old, new) for a one-character old and a string new (by
\* halves, so that long strings do not nest deeply).
RECURSIVE Replace(_, _, _)
Replace(s, old, new) ==
    IF Len(s) = 0 THEN <<>>
    ELSE IF Len(s) = 1 THEN (IF s[1] = old THEN new ELSE s)
    ELSE LET h == Len(s) \div 2
         IN Replace(SubSeq(s, 1, h), old, new) \o Replace(SubSeq(s, h + 1, Len(s)), old, new)

\* str.strip()
RECURSIVE LStrip(_)
LStrip(s) ==
    IF s # <<>> /\ Head(s) \in Whitespace THEN LStrip(Tail(s)) ELSE s

RECURSIVE RStrip(_)
RStrip(s) ==
    IF s # <<>> /\ s[Len(s)] \in Whitespace
    THEN RStrip(SubSeq(s, 1, Len(s) - 1)) ELSE s

Strip(s) == RStrip(LStrip(s))

\* ----------------------------------------------------------------- floats

\* Fixed-point unit of the float model: a value v stands for v / Scale.
Scale == 10000

Num(v) == [k |-> "num", v |-> v]
NaN == [k |-> "nan", v |-> 0]
None == [k |-> "none", v |-> 0]

IsNum(x) == x.k = "num"

Abs(n) == IF n < 0 THEN -n ELSE n

RECURSIVE IntVal(_)
\* value of a string of digits ("" is 0)
IntVal(ds) ==
    IF ds = <<>> THEN 0
    ELSE 10 * IntVal(SubSeq(ds, 1, Len(ds) - 1)) + DigitVal(ds[Len(ds)])

\* value, in units of 1/Scale, of the fractional digits fs (digits past the
\* fourth are below the model's resolution)
FracVal(fs) ==
    LET d(i) == IF i <= Len(fs) THEN DigitVal(fs[i]) ELSE 0
    IN 1000 * d(1) + 100 * d(2) + 10 * d(3) + d(4)

\* The decimal grammar shared by pd.to_numeric and float():
\*   [sign] digits [ "." digits* ]  |  [sign] "." digits
\* yields the number, or NaN when s is not of that form.
ParseDecimal(s) ==
    LET signed == s # <<>> /\ s[1] \in {"-", "+"}
        body == IF signed THEN Tail(s) ELSE s
        dots == {i \in 1..Len(body) : body[i] = "."}
        clean == \A i \in 1..Len(body) : body[i] \in Digits \cup {"."}
        dot == IF dots = {} THEN Len(body) + 1 ELSE CHOOSE i \in dots : TRUE
        ip == SubSeq(body, 1, dot - 1)
        fp == SubSeq(body, dot + 1, Len(body))
        mag == IntVal(ip) * Scale + FracVal(fp)
    IN IF ~clean \/ Cardinality(dots) > 1 \/ Len(ip) + Len(fp) = 0
       THEN NaN
       ELSE Num(IF signed /\ s[1] = "-" THEN -mag ELSE mag)

\* pd.to_numeric(..., errors="coerce") on one element: never raises.
ToNumeric(s) == ParseDecimal(s)

\* NormalizeNumeric without the replacement of the no-break space.
NormalizeNumeric_KeepNbsp(s) ==
    Replace(Replace(Replace(Replace(s,
        UMINUS, <<"-">>), ENDASH, <<"-">>), " ", <<>>), ",", <<".">>)

\* The chain of str.replace calls of _parse_numeric.
NormalizeNumeric(s) ==
    Replace(Replace(Replace(Replace(Replace(s,
        UMINUS, <<"-">>), ENDASH, <<"-">>), NBSP, <<>>), " ", <<>>), ",", <<".">>)

\* _parse_numeric on one cell.
ParseNumericCell(cell) == ToNumeric(NormalizeNumeric(AsStr(cell)))

\* _parse_numeric(series)
_parse_numeric(series) == [i \in 1..Len(series) |-> ParseNumericCell(series[i])]

\* ------------------------------------------------------------------ dates

Date(y, m, d) == [y |-> y, m |-> m, d |-> d]
NoDate == [y |-> 0, m |-> 0, d |-> 0]

IsLeap(y) == y % 4 = 0 /\ (y % 100 # 0 \/ y % 400 = 0)

DaysInMonth(y, m) ==
    CASE m \in {1, 3, 5, 7, 8, 10, 12} -> 31
      [] m \in {4, 6, 9, 11} -> 30
      [] OTHER -> IF IsLeap(y) THEN 29 ELSE 28

IsValidDate(dt) ==
    /\ dt.y >= 1 /\ dt.m \in 1..12
    /\ dt.d >= 1 /\ dt.d <= DaysInMonth(dt.y, dt.m)

\* datetime._days_before_year
DaysBeforeYear(y) ==
    (y - 1) * 365 + ((y - 1) \div 4) - ((y - 1) \div 100) + ((y - 1) \div 400)

\* datetime._days_before_month
RECURSIVE DaysBeforeMonth(_, _)
DaysBeforeMonth(y, m) ==
    IF m = 1 THEN 0 ELSE DaysBeforeMonth(y, m - 1) + DaysInMonth(y, m - 1)

\* date.toordinal()
ToOrdinal(dt) == DaysBeforeYear(dt.y) + DaysBeforeMonth(dt.y, dt.m) + dt.d

\* date.fromordinal(n): datetime._ord2ymd
FromOrdinal(ord) ==
    LET n0 == ord - 1
        n400 == n0 \div 146097
        r400 == n0 % 146097
        n100 == r400 \div 36524
        r100 == r400 % 36524
        n4 == r100 \div 1461
        r4 == r100 % 1461
        n1 == r4 \div 365
        n == r4 % 365
        year == n400 * 400 + 1 + n100 * 100 + n4 * 4 + n1
        leapyear == n1 = 3 /\ (n4 # 24 \/ n100 = 3)
        before(m) == (CASE m = 1 -> 0 [] m = 2 -> 31 [] m = 3 -> 59 [] m = 4 -> 90
                        [] m = 5 -> 120 [] m = 6 -> 151 [] m = 7 -> 181 [] m = 8 -> 212
                        [] m = 9 -> 243 [] m = 10 -> 273 [] m = 11 -> 304 [] m = 12 -> 334)
                     + (IF m > 2 /\ leapyear THEN 1 ELSE 0)
        month0 == (n + 50) \div 32
        month == IF before(month0) > n THEN month0 - 1 ELSE month0
    IN IF n1 = 4 \/ n100 = 4
       THEN Date(year - 1, 12, 31)
       ELSE Date(year, month, n - before(month) + 1)

\* date - timedelta(days=k)
MinusDays(dt, k) == FromOrdinal(ToOrdinal(dt) - k)

\* date comparison d1 <= d2
DateLeq(d1, d2) ==
    \/ d1.y < d2.y
    \/ d1.y = d2.y /\ d1.m < d2.m
    \/ d1.y = d2.y /\ d1.m = d2.m /\ d1.d <= d2.d

\* n written with exactly w digits (strftime's zero padding)
RECURSIVE Pad(_, _)
Pad(n, w) == IF w = 0 THEN <<>> ELSE Pad(n \div 10, w - 1) \o <<DigitChar(n % 10)>>

\* date.isoformat() and strftime("%Y-%m-%d")
IsoFormat(dt) == Pad(dt.y, 4) \o <<"-">> \o Pad(dt.m, 2) \o <<"-">> \o Pad(dt.d, 2)

AllDigits(s) == \A i \in 1..Len(s) : s[i] \in Digits

\* date.fromisoformat(s) for the layout YYYY-MM-DD: the date, or NoDate where
\* Python raises ValueError.
FromIsoFormat(s) ==
    IF /\ Len(s) = 10 /\ s[5] = "-" /\ s[8] = "-"
       /\ AllDigits(SubSeq(s, 1, 4)) /\ AllDigits(SubSeq(s, 6, 7))
       /\ AllDigits(SubSeq(s, 9, 10))
    THEN LET dt == Date(IntVal(SubSeq(s, 1, 4)), IntVal(SubSeq(s, 6, 7)),
                        IntVal(SubSeq(s, 9, 10)))
         IN IF IsValidDate(dt) THEN dt ELSE NoDate
    ELSE NoDate

\* ------------------------------------------------------------ riksbanken.py

CURRENCY_SERIES ==
    [EUR |-> "SEKEURPMI", USD |-> "SEKUSDPMI", GBP |-> "SEKGBPPMI",
     NOK |-> "SEKNOKPMI", DKK |-> "SEKDKKPMI", CHF |-> "SEKCHFPMI",
     JPY |-> "SEKJPYPMI", CAD |-> "SEKCADPMI", AUD |-> "SEKAUDPMI",
     NZD |-> "SEKNZDPMI", PLN |-> "SEKPLNPMI", CZK |-> "SEKCZKPMI",
     HUF |-> "SEKHUFPMI", TRY |-> "SEKTRYPMI", CNY |-> "SEKCNYPMI",
     HKD |-> "SEKHKDPMI", SGD |-> "SEKSGDPMI", THB |-> "SEKTHBPMI",
     KRW |-> "SEKKRWPMI", INR |-> "SEKINRPMI"]

\* str.upper() on the currency codes the model draws
Upper(c) == CASE c = "eur" -> "EUR" [] c = "usd" -> "USD" [] OTHER -> c

\* _previous_month_end going 30 days back from the reference date.
_previous_month_end_ThirtyDays(reference_date) == MinusDays(reference_date, 30)

\* _previous_month_end(reference_date)
_previous_month_end(reference_date) ==
    LET first_of_month == [reference_date EXCEPT !.d = 1]
    IN MinusDays(first_of_month, 1)

\* The lookback of the query window, in days.
Lookback == 10

\* JSON values of the response body.
JStr(s) == [t |-> "str", s |-> s, n |-> 0]
JNum(n) == [t |-> "num", s |-> <<>>, n |-> n]
JNull == [t |-> "null", s |-> <<>>, n |-> 0]
\* An element of the list: an object with fields f, or a non-object value.
JObj(f) == [t |-> "obj", f |-> f]
JNonObj == [t |-> "other", f |-> <<>>]
NoObs == [t |-> "none", f |-> <<>>]

\* float(x) for a JSON value: "TypeError", "ValueError" or the number.
PyFloat(x) ==
    CASE x.t = "num" -> [exc |-> "none", v |-> Num(x.n)]
      [] x.t = "str" ->
            LET r == ParseDecimal(Strip(x.s))
            IN IF IsNum(r) THEN [exc |-> "none", v |-> r]
               ELSE [exc |-> "ValueError", v |-> NaN]
      [] OTHER -> [exc |-> "TypeError", v |-> NaN]

\* The for loop of get_fx_rate from element i on: the exception it raises
\* ("none" when it completes or breaks) and the value of best after it.
RECURSIVE ScanObservations(_, _, _, _)
ScanObservations(data, month_end, i, best) ==
    IF i > Len(data) THEN [exc |-> "none", best |-> best]
    ELSE LET obs == data[i] IN
         IF obs.t # "obj" THEN [exc |-> "TypeError", best |-> best]
         ELSE IF "date" \notin DOMAIN obs.f THEN [exc |-> "KeyError", best |-> best]
         ELSE IF obs.f["date"].t # "str" THEN [exc |-> "TypeError", best |-> best]
         ELSE LET obs_date == FromIsoFormat(obs.f["date"].s) IN
              IF obs_date = NoDate THEN [exc |-> "ValueError", best |-> best]
              ELSE IF DateLeq(obs_date, month_end)
                   THEN ScanObservations(data, month_end, i + 1, obs)
                   ELSE [exc |-> "none", best |-> best]

NotFound(request) ==
    [kind |-> "return", rate |-> None, rate_date |-> NoDate, request |-> request]
Raised(exc, request) ==
    [kind |-> exc, rate |-> None, rate_date |-> NoDate, request |-> request]
NoRequest == [series_id |-> "", from |-> <<>>]

\* get_fx_rate(currency, reference_date), the body under the cache decorator,
\* given the answer of requests.get: what it returns or the exception
\* that leaves it, and the request it made.
get_fx_rate(ccy, reference_date, answer) ==
    IF Upper(ccy) \notin DOMAIN CURRENCY_SERIES THEN NotFound(NoRequest)
    ELSE
    LET series_id == CURRENCY_SERIES[Upper(ccy)]
        month_end == _previous_month_end(reference_date)
        query_from == MinusDays(month_end, Lookback)
        request == [series_id |-> series_id, from |-> IsoFormat(query_from)]
    IN IF answer.kind = "RequestException" THEN NotFound(request)
       ELSE IF answer.status # 200 THEN NotFound(request)
       ELSE IF answer.kind = "not_json" THEN NotFound(request)
       ELSE IF ~(answer.body.t = "list" /\ Len(answer.body.items) > 0) THEN NotFound(request)
       ELSE LET scan == ScanObservations(answer.body.items, month_end, 1, NoObs) IN
            IF scan.exc = "TypeError" THEN Raised("TypeError", request)
            ELSE IF scan.exc # "none" THEN NotFound(request)
            ELSE IF scan.best = NoObs THEN NotFound(request)
            ELSE IF "value" \notin DOMAIN scan.best.f THEN NotFound(request)
            ELSE LET fl == PyFloat(scan.best.f["value"]) IN
                 IF fl.exc = "TypeError" THEN Raised("TypeError", request)
                 ELSE IF fl.exc = "ValueError" THEN NotFound(request)
                 ELSE [kind |-> "return", rate |-> fl.v,
                       rate_date |-> FromIsoFormat(scan.best.f["date"].s),
                       request |-> request]

\* ------------------------------------------------------------- converter.py

\* pd.to_datetime(cell, dayfirst=True, format="mixed") on one element, for a
\* missing cell and the layouts YYYY-MM-DD, DD/MM/YYYY and DD.MM.YYYY (with
\* dateutil's fallback to month first when the second field is no month).
\* kind "date": parsed; "nat": missing; "raise": the parser raises.
ParseDateCell(cell) ==
    LET s == cell
        iso == FromIsoFormat(s)
        dmy == /\ Len(s) = 10 /\ s[3] \in {"/", "."} /\ s[6] = s[3]
               /\ AllDigits(SubSeq(s, 1, 2)) /\ AllDigits(SubSeq(s, 4, 5))
               /\ AllDigits(SubSeq(s, 7, 10))
        a == IntVal(SubSeq(s, 1, 2))
        b == IntVal(SubSeq(s, 4, 5))
        y == IntVal(SubSeq(s, 7, 10))
    IN IF cell = NA THEN [kind |-> "nat", dt |-> NoDate]
       ELSE IF iso # NoDate THEN [kind |-> "date", dt |-> iso]
       ELSE IF dmy /\ IsValidDate(Date(y, b, a)) THEN [kind |-> "date", dt |-> Date(y, b, a)]
       ELSE IF dmy /\ b > 12 /\ IsValidDate(Date(y, a, b))
            THEN [kind |-> "date", dt |-> Date(y, a, b)]
       ELSE [kind |-> "raise", dt |-> NoDate]

\* .dt.strftime("%Y-%m-%d") on one element: NaT gives NaN.
StrfDate(p) == IF p.kind = "date" THEN IsoFormat(p.dt) ELSE NA

\* SubtractFee without the absolute value of the fee.
SubtractFee_Signed(belopp, fee) ==
    LET filled == IF IsNum(fee) THEN fee ELSE Num(0)
    IN IF IsNum(belopp) THEN Num(belopp.v - filled.v) ELSE NaN

\* belopp - fee.abs(), with fee already NaN-filled (lines 49-50).
SubtractFee(belopp, fee) ==
    LET filled == IF IsNum(fee) THEN fee ELSE Num(0)
    IN IF IsNum(belopp) THEN Num(belopp.v - Abs(filled.v)) ELSE NaN

\* The product of two fixed-point values, cut to the model's resolution
\* (computed by halves, to stay within 32-bit integers).
FixedMul(a, b) ==
    LET a1 == Abs(a) \div 100
        a0 == Abs(a) % 100
        b1 == Abs(b) \div 100
        b0 == Abs(b) % 100
        mag == a1 * b1 + ((a1 * b0 + a0 * b1) * 100 + a0 * b0) \div Scale
    IN IF (a < 0) = (b < 0) THEN mag ELSE -mag

\* belopp * fx_rate (line 53)
Multiply(belopp, rate) ==
    IF IsNum(belopp) /\ IsNum(rate) THEN Num(FixedMul(belopp.v, rate.v)) ELSE NaN

\* The Belopp of one row (lines 46-55).
RowBelopp(row, map, rate) ==
    LET parsed == ParseNumericCell(row[map["Belopp"]])
        net == IF "Fee" \in DOMAIN map /\ map["Fee"] # ""
               THEN SubtractFee(parsed, ParseNumericCell(row[map["Fee"]]))
               ELSE parsed
    IN IF rate # None /\ rate # Num(Scale) THEN Multiply(net, rate) ELSE net

\* transform_data(df, mapping, fx_rate): the frame it returns, or the
\* exception pd.to_datetime raises on a date it cannot parse.
transform_data(table, map, rate) ==
    IF \E i \in 1..Len(table.rows) :
            ParseDateCell(table.rows[i][map["Datum"]]).kind = "raise"
    THEN [exc |-> "ValueError", rows |-> <<>>]
    ELSE [exc |-> "none",
          rows |-> [i \in 1..Len(table.rows) |->
                       [Datum |-> StrfDate(ParseDateCell(table.rows[i][map["Datum"]])),
                        Beskrivning |-> Strip(AsStr(table.rows[i][map["Beskrivning"]])),
                        Belopp |-> RowBelopp(table.rows[i], map, rate)]]]

\* The decimal digits of a natural number.
RECURSIVE NatDigits(_)
NatDigits(n) ==
    IF n < 10 THEN <<DigitChar(n)>> ELSE NatDigits(n \div 10) \o <<DigitChar(n % 10)>>

\* f"{x:.2f}": NaN prints as nan.  A value exactly half way between two
\* hundredths is rounded by its binary expansion, which the fixed-point model
\* does not hold: ties_up says which way such a value went.
FormatFixed2(x, ties_up) ==
    IF ~IsNum(x) THEN <<"n", "a", "n">>
    ELSE LET mag == Abs(x.v)
             q == mag \div 100
             r == mag % 100
             cents == IF r > 50 \/ (r = 50 /\ ties_up) THEN q + 1 ELSE q
         IN (IF x.v < 0 THEN <<"-">> ELSE <<>>)
            \o NatDigits(cents \div 100) \o <<".">> \o Pad(cents % 100, 2)

\* The longest description export_csv writes.
MaxDescription == 100

\* s[:n]
Truncate(s, n) == IF Len(s) <= n THEN s ELSE SubSeq(s, 1, n)

\* CsvLine cutting the description before it replaces the semicolons, and
\* one character late.
CsvLine_CutLate(row, ties_up) ==
    LET datum == AsStr(row.Datum)
        beskrivning == Replace(Truncate(row.Beskrivning, MaxDescription + 1), ";", <<",">>)
        belopp == Replace(FormatFixed2(row.Belopp, ties_up), ".", <<",">>)
    IN datum \o <<";">> \o beskrivning \o <<";">> \o belopp

\* One data line of export_csv (lines 69-72).
CsvLine(row, ties_up) ==
    LET datum == AsStr(row.Datum)
        beskrivning == Truncate(Replace(row.Beskrivning, ";", <<",">>), MaxDescription)
        belopp == Replace(FormatFixed2(row.Belopp, ties_up), ".", <<",">>)
    IN datum \o <<";">> \o beskrivning \o <<";">> \o belopp

HeaderLine ==
    <<"D", "a", "t", "u", "m", ";",
      "I", "n", "g", "U+00E5", "e", "n", "d", "e", " ", "s", "a", "l", "d", "o", "-",
      "B", "e", "s", "k", "r", "i", "v", "n", "i", "n", "g", ";",
      "B", "e", "l", "o", "p", "p">>

SentinelLine ==
    <<"T", "h", "i", "s", " ", "w", "i", "l", "l", " ", "n", "o", "t", " ",
      "b", "e", " ", "i", "m", "p", "o", "r", "t", "e", "d">>

CR == "<CR>"
LF == "<LF>"
BOM == <<"0xEF", "0xBB", "0xBF">>

\* The UTF-8 bytes of one character: an ASCII character is its own byte.
Utf8(c) ==
    CASE c = "U+00E5" -> <<"0xC3", "0xA5">>
      [] c = NBSP -> <<"0xC2", "0xA0">>
      [] c = UMINUS -> <<"0xE2", "0x88", "0x92">>
      [] c = ENDASH -> <<"0xE2", "0x80", "0x93">>
      [] OTHER -> <<c>>

\* str.encode("utf-8") (by halves)
RECURSIVE Encode(_)
Encode(s) ==
    IF Len(s) = 0 THEN <<>>
    ELSE IF Len(s) = 1 THEN Utf8(s[1])
    ELSE LET h == Len(s) \div 2
         IN Encode(SubSeq(s, 1, h)) \o Encode(SubSeq(s, h + 1, Len(s)))

\* "\r\n".join(lines) + "\r\n"
RECURSIVE JoinCrLf(_)
JoinCrLf(lines) ==
    IF Len(lines) = 1 THEN Head(lines) \o <<CR, LF>>
    ELSE Head(lines) \o <<CR, LF>> \o JoinCrLf(Tail(lines))

\* export_csv(df)
export_csv(rows, ties_up) ==
    LET lines == <<HeaderLine>>
                 \o [i \in 1..Len(rows) |-> CsvLine(rows[i], ties_up)]
                 \o <<SentinelLine>>
    IN BOM \o Encode(JoinCrLf(lines))

\* ------------------------------------------------------------------ app.py

FORTNOX_FIELDS == <<"Datum", "Beskrivning", "Belopp">>
OPTIONAL_FIELDS == <<"Fee">>
ALL_MAPPING_FIELDS == FORTNOX_FIELDS \o OPTIONAL_FIELDS
DISPLAY_NAMES ==
    [Datum |-> "Date", Beskrivning |-> "Description", Belopp |-> "Amount", Fee |-> "Fee"]

\* The items of the group of sorted_items headed header.
GroupItems(groups, header) ==
    LET g == CHOOSE k \in 1..Len(groups) : groups[k].header = header
    IN groups[g].items

\* ParseSortedItems taking the first column of any bucket that is not empty.
ParseSortedItems_FirstOfMany(groups) ==
    LET assigned(field) == GroupItems(groups, DISPLAY_NAMES[field])
    IN [mapping |-> [field \in {f \in Range(ALL_MAPPING_FIELDS) : Len(assigned(f)) >= 1}
                        |-> assigned(field)[1]],
        mapping_complete |-> \A f \in Range(FORTNOX_FIELDS) : Len(assigned(f)) >= 1]

\* Lines 137-158: the mapping read back from the buckets, and whether every
\* required field has exactly one column.
ParseSortedItems(groups) ==
    LET assigned(field) == GroupItems(groups, DISPLAY_NAMES[field])
    IN [mapping |-> [field \in {f \in Range(ALL_MAPPING_FIELDS) : Len(assigned(f)) = 1}
                        |-> assigned(field)[1]],
        mapping_complete |-> \A f \in Range(FORTNOX_FIELDS) : Len(assigned(f)) = 1]

\* float(manual_rate.replace(",", ".")): the float, or NaN where Python
\* raises ValueError.
FloatOfText(text) == ParseDecimal(Strip(Replace(text, ",", <<".">>)))

\* Python truth of a rate: None and 0.0 are false.
Truthy(rate) == rate # None /\ rate # Num(0)

\* ChooseRate going on with a rate of 1 when there is no rate.
ChooseRate_DefaultOne(manual, auto_rate) ==
    IF Strip(manual) # <<>> /\ IsNum(FloatOfText(manual))
    THEN [stop |-> "", rate |-> FloatOfText(manual)]
    ELSE IF Truthy(auto_rate) THEN [stop |-> "", rate |-> auto_rate]
    ELSE [stop |-> "", rate |-> Num(Scale)]

\* Lines 213-224: the rate the run goes on with, or why it stops.
ChooseRate(manual, auto_rate) ==
    IF Strip(manual) # <<>>
    THEN IF IsNum(FloatOfText(manual))
         THEN [stop |-> "", rate |-> FloatOfText(manual)]
         ELSE [stop |-> "invalid_rate", rate |-> None]
    ELSE IF Truthy(auto_rate) THEN [stop |-> "", rate |-> auto_rate]
    ELSE [stop |-> "no_rate", rate |-> None]

\* pd.to_datetime(result_df["Datum"]) on one element: the Datum strings are
\* YYYY-MM-DD or missing (NoDate stands for NaT).
DatumDate(datum) == IF datum = NA THEN NoDate ELSE FromIsoFormat(datum)

\* InRange with the upper bound left out of the interval.
InRange_OpenEnd(datum, from, to) ==
    LET dt == DatumDate(datum)
    IN /\ dt # NoDate /\ from # NoDate /\ to # NoDate
       /\ DateLeq(from, dt) /\ DateLeq(dt, to) /\ dt # to

\* Line 244 on one record: NaT compares false with every bound, and every
\* date compares false with a bound that is NaT.
InRange(datum, from, to) ==
    LET dt == DatumDate(datum)
    IN /\ dt # NoDate /\ from # NoDate /\ to # NoDate
       /\ DateLeq(from, dt) /\ DateLeq(dt, to)

\* Lines 244-245: result_df[mask].reset_index(drop=True)
RangeFilter(rows, from, to) ==
    SelectSeq(rows, LAMBDA r : InRange(r.Datum, from, to))

\* ------------------------------------------------- _parse_numeric, checked


PlainAlphabet == {"-", ".", "0", "5"}
RawAlphabet == {"-", ".", ",", " ", NBSP, UMINUS, "5", "x"}

\* A plain ASCII number: ASCII minus, period decimal separator, no separators.
IsPlainNumber(s) ==
    LET body == IF s # <<>> /\ s[1] = "-" THEN Tail(s) ELSE s
        dots == {i \in 1..Len(body) : body[i] = "."}
    IN /\ body # <<>>
       /\ \A i \in 1..Len(body) : body[i] \in Digits \cup {"."}
       /\ Cardinality(dots) <= 1
       /\ \A i \in dots : 1 < i /\ i < Len(body)

PlainNumbers == {s \in SeqsUpTo(PlainAlphabet, MaxPlainLen) : IsPlainNumber(s)}

\* The same number written the Swedish way: sep[i] is put in front of the i-th
\* character (a thousands separator or nothing), the sign is drawn as `minus`
\* and the decimal separator as `point`.
RECURSIVE Spell(_, _, _, _, _)
Spell(plain, sep, minus, point, i) ==
    IF i > Len(plain) THEN <<>>
    ELSE sep[i]
         \o <<(CASE plain[i] = "-" -> minus
                 [] plain[i] = "." -> point
                 [] OTHER -> plain[i])>>
         \o Spell(plain, sep, minus, point, i + 1)

Separators == {<<>>, <<" ">>, <<NBSP>>}

NumIdle == series_in = <<>> /\ series_out = <<>> /\ plain_in = <<>>

NoResp == [kind |-> "none", status |-> 0, body |-> [t |-> "none", items |-> <<>>]]

FxIdle ==
    /\ currency = "SEK" /\ ref_date = NoDate /\ resp = NoResp
    /\ fx_result = NotFound(NoRequest)

NoTable == [columns |-> <<>>, rows |-> <<>>]
NoFrame == [exc |-> "none", rows |-> <<>>]

ConvIdle ==
    /\ df = NoTable /\ mapping = <<>> /\ fx_rate = None
    /\ result_df = NoFrame /\ csv_bytes = <<>> /\ calls = <<>>

AppIdle ==
    /\ sorted_items = <<>> /\ mapping_complete = FALSE /\ presets = <<>>
    /\ manual_rate = <<>> /\ date_from = NoDate /\ date_to = NoDate
    /\ filtered_df = <<>>

InitNum ==
    /\ pc = "parse"
    /\ FxIdle
    /\ ConvIdle
    /\ AppIdle
    /\ series_out = <<>>
    /\ \/ \E plain \in PlainNumbers, minus \in {"-", UMINUS, ENDASH}, point \in {".", ","} :
            \E sep \in [1..Len(plain) -> Separators] :
                /\ plain_in = <<plain>>
                /\ series_in = <<Spell(plain, sep, minus, point, 1)>>
       \/ \E raw \in SeqsUpTo(RawAlphabet, MaxRawLen) \cup {NA} :
            /\ plain_in = <<>>
            /\ series_in = <<raw>>

\* converter.py: the call _parse_numeric(series)
ParseCall ==
    /\ pc = "parse"
    /\ series_out' = _parse_numeric(series_in)
    /\ pc' = "parsed"
    /\ UNCHANGED <<series_in, plain_in, fxVars, convVars, appVars>>

NextNum == ParseCall

SpecNum == InitNum /\ [][NextNum]_vars
\* The characters a number may be written with.
NumericGlyphs == Digits \cup {"-", "+", ".", ",", " ", NBSP, UMINUS, ENDASH}

RefDays == {1, 2, 15, 28, 29, 30, 31}

RefDates ==
    {dt \in [y : FirstYear..LastYear, m : 1..12, d : RefDays] : IsValidDate(dt)}

\* Days, relative to the month end, the drawn observations are dated.
Offsets == <<-12, -10, -2, 0, 1, 3>>

\* The value the service reports for the observation dated k days after base.
ValueAt(i) ==
    IF i % 2 = 0 THEN JNum((10 + i) * Scale + 2500)
    ELSE JStr(<<"1", DigitChar(i), ".", "2", "5">>)

GoodObs(base, i) ==
    JObj([date |-> JStr(IsoFormat(FromOrdinal(base + Offsets[i]))),
          value |-> ValueAt(i)])

\* The observations picked by the index set S, in ascending date order.
RECURSIVE Ascending(_, _, _)
Ascending(base, S, i) ==
    IF i > Len(Offsets) THEN <<>>
    ELSE (IF i \in S THEN <<GoodObs(base, i)>> ELSE <<>>) \o Ascending(base, S, i + 1)

\* Elements a list may hold: well-formed ones and every malformed shape.
ObsShapes(base) ==
    LET day == JStr(IsoFormat(FromOrdinal(base - 2)))
    IN { GoodObs(base, 3), GoodObs(base, 5),
         JNonObj,
         JObj([value |-> JStr(<<"1", "1">>)]),
         JObj([date |-> JNull, value |-> JStr(<<"1", "1">>)]),
         JObj([date |-> JNum(20240 * Scale), value |-> JStr(<<"1", "1">>)]),
         JObj([date |-> JStr(<<"j", "u", "n", "k">>), value |-> JStr(<<"1", "1">>)]),
         JObj([date |-> JStr(<<"2", "0", "2", "4", "-", "0", "6", "-", "3", "1">>),
               value |-> JStr(<<"1", "1">>)]),
         JObj([date |-> day]),
         JObj([date |-> day, value |-> JNull]),
         JObj([date |-> day, value |-> JStr(<<"n", "/", "a">>)]),
         JObj([date |-> day, value |-> JStr(<<"0">>)]),
         JObj([date |-> day, value |-> JStr(<<"-", "2", ".", "5">>)]) }

Ok200(body) == [kind |-> "response", status |-> 200, body |-> body]
JList(items) == [t |-> "list", items |-> items]

\* Every answer of the service the model draws for a request whose month end
\* has ordinal base.
Responses(base) ==
    {Ok200(JList(Ascending(base, S, 1))) : S \in SUBSET (1..Len(Offsets))}
    \cup {Ok200(JList(items)) : items \in SeqsUpTo(ObsShapes(base), MaxObsLen)}
    \cup {Ok200([t |-> "dict", items |-> <<>>]), Ok200([t |-> "null", items |-> <<>>]),
          [kind |-> "not_json", status |-> 200, body |-> [t |-> "none", items |-> <<>>]],
          [kind |-> "response", status |-> 404, body |-> [t |-> "dict", items |-> <<>>]],
          [kind |-> "response", status |-> 500, body |-> [t |-> "none", items |-> <<>>]],
          [kind |-> "RequestException", status |-> 0, body |-> [t |-> "none", items |-> <<>>]]}

FxCurrencies == {"EUR", "usd", "ZZZ"}

InitFx ==
    /\ pc = "resolve"
    /\ NumIdle
    /\ ConvIdle
    /\ AppIdle
    /\ currency \in FxCurrencies
    /\ ref_date \in RefDates
    /\ resp \in Responses(ToOrdinal(_previous_month_end(ref_date)))
    /\ fx_result = NotFound(NoRequest)

\* riksbanken.py: one call of get_fx_rate, the service answering resp
ResolveCall ==
    /\ pc = "resolve"
    /\ fx_result' = get_fx_rate(currency, ref_date, resp)
    /\ pc' = "resolved"
    /\ UNCHANGED <<numVars, convVars, appVars, currency, ref_date, resp>>

NextFx == ResolveCall

SpecFx == InitFx /\ [][NextFx]_vars

\* The last day of the calendar month before r, by the calendar.
LastDayOfPreviousMonth(r) ==
    IF r.m = 1 THEN Date(r.y - 1, 12, 31)
    ELSE Date(r.y, r.m - 1, DaysInMonth(r.y, r.m - 1))

\* An observation as the service documents it.
WellFormedObs(o) ==
    /\ o.t = "obj"
    /\ DOMAIN o.f = {"date", "value"}
    /\ o.f["date"].t = "str"
    /\ FromIsoFormat(o.f["date"].s) # NoDate
    /\ PyFloat(o.f["value"]).exc = "none"

ObsDate(o) == FromIsoFormat(o.f["date"].s)

IsList200(a) == a.kind = "response" /\ a.status = 200 /\ a.body.t = "list"

\* Status 200 with a non-empty list of observations in ascending date order.
AscendingAnswer(a) ==
    /\ IsList200(a)
    /\ Len(a.body.items) > 0
    /\ \A i \in 1..Len(a.body.items) : WellFormedObs(a.body.items[i])
    /\ \A i, j \in 1..Len(a.body.items) :
          i < j => /\ DateLeq(ObsDate(a.body.items[i]), ObsDate(a.body.items[j]))
                   /\ ObsDate(a.body.items[i]) # ObsDate(a.body.items[j])

\* C1: for a supported currency, the series is queried from ten days before
\* the last day of the month before the reference date; an ascending answer
\* yields the value and date of the latest observation dated on or before
\* that month end, or not-found when there is none; and no observation dated
\* after the month end is ever returned.
C1_LatestOnOrBeforeMonthEnd ==
    (pc = "resolved" /\ Upper(currency) \in DOMAIN CURRENCY_SERIES) =>
        LET monthEnd == LastDayOfPreviousMonth(ref_date)
            items == resp.body.items
            Q == {i \in 1..Len(items) : DateLeq(ObsDate(items[i]), monthEnd)}
        IN /\ fx_result.request.series_id = CURRENCY_SERIES[Upper(currency)]
           /\ FromIsoFormat(fx_result.request.from) # NoDate
           /\ ToOrdinal(FromIsoFormat(fx_result.request.from)) + 10 = ToOrdinal(monthEnd)
           /\ AscendingAnswer(resp) =>
                 IF Q = {} THEN fx_result = NotFound(fx_result.request)
                 ELSE LET i == CHOOSE i \in Q :
                                  \A j \in Q : DateLeq(ObsDate(items[j]), ObsDate(items[i]))
                      IN /\ fx_result.kind = "return"
                         /\ fx_result.rate = PyFloat(items[i].f["value"]).v
                         /\ fx_result.rate_date = ObsDate(items[i])
           /\ (fx_result.kind = "return" /\ fx_result.rate # None)
                 => DateLeq(fx_result.rate_date, monthEnd)

\* C1 witness: a reference date in January (the month end lies in the year
\* before), an ascending answer with observations before and after the month
\* end, and the observation two days before the month end returned.
C1_Witness ==
    /\ pc = "resolved"
    /\ currency = "usd"
    /\ ref_date = Date(2024, 1, 15)
    /\ AscendingAnswer(resp)
    /\ Len(resp.body.items) = 3
    /\ ObsDate(resp.body.items[3]) = Date(2024, 1, 3)
    /\ fx_result.rate_date = Date(2023, 12, 29)
    /\ fx_result.rate = Num(130000 + 2500)
    /\ fx_result.request.from = IsoFormat(Date(2023, 12, 21))

\* C2: no outcome of the external call lets an exception leave get_fx_rate;
\* a request error, a status other than 200, a body that is not JSON, a JSON
\* body that is not a list, and a list that starts with a malformed element
\* all give not-found.
C2_NeverRaises ==
    pc = "resolved" =>
        /\ fx_result.kind = "return"
        /\ ~IsList200(resp) => fx_result.rate = None
        /\ (IsList200(resp) /\ Len(resp.body.items) > 0
                /\ ~WellFormedObs(resp.body.items[1])) => fx_result.rate = None

\* ------------------------------------- transform_data and export_csv, checked

Repeat(c, n) == [i \in 1..n |-> c]

ConvColumns == <<"Date", "Text", "Amount", "Fee">>

Row(date, text, amount, fee) ==
    [Date |-> date, Text |-> text, Amount |-> amount, Fee |-> fee]

\* The rows raw tables are drawn from.
RowPool ==
    { Row(<<"3", "1", "/", "0", "1", "/", "2", "0", "2", "4">>,
          <<"C", "o", "f", "f", "e", "e">>,
          <<"-", "4", "5", ",", "0", "0">>, NA),
      Row(<<"2", "0", "2", "4", "-", "0", "2", "-", "0", "1">>,
          <<" ", "R", "e", "n", "t", ";", " ", "J", "u", "l", "y", NBSP>>,
          <<"1", " ", "2", "3", "4", ",", "5", "6">>,
          <<"-", "2", ",", "5", "0">>),
      Row(<<"0", "3", ".", "0", "2", ".", "2", "0", "2", "4">>,
          Repeat("a", 99) \o <<";", "b">>,
          <<UMINUS, "5">>,
          <<"n", "o", "n", "e">>),
      Row(NA, <<"x">>, <<"7">>, <<"1">>),
      Row(<<"2", "0", "2", "4", "-", "0", "2", "-", "0", "5">>,
          <<"q">>, <<"a", "b", "c">>, NA),
      Row(<<"j", "u", "n", "k">>, <<"y">>, <<"1", "0">>, <<>>) }

ConvTables ==
    {[columns |-> ConvColumns, rows |-> rows] : rows \in SeqsUpTo(RowPool, MaxRows)}

ConvMappings ==
    { [Datum |-> "Date", Beskrivning |-> "Text", Belopp |-> "Amount"],
      [Datum |-> "Date", Beskrivning |-> "Text", Belopp |-> "Amount", Fee |-> "Fee"] }

ConvRates == {None, Num(Scale), Num(114300), Num(5000)}

\* The records datasets are drawn from.
RecordPool ==
    [Datum : {<<"2", "0", "2", "4", "-", "0", "1", "-", "3", "1">>, NA},
     Beskrivning : {<<";", "R", ";", ";">>, Repeat("a", 100),
                    Repeat("b", 100) \o <<";">>, Repeat(";", 150)},
     Belopp : {Num(-450000), Num(12345650), Num(-40), NaN}]

InitConv ==
    /\ NumIdle
    /\ FxIdle
    /\ AppIdle
    /\ csv_bytes = <<>>
    /\ calls = <<>>
    /\ \/ /\ pc = "transform"
          /\ df \in ConvTables
          /\ mapping \in ConvMappings
          /\ fx_rate \in ConvRates
          /\ result_df = NoFrame
       \/ /\ pc = "export"
          /\ df = NoTable /\ mapping = <<>> /\ fx_rate = None
          /\ \E rows \in SeqsUpTo(RecordPool, MaxRecords) :
                result_df = [exc |-> "none", rows |-> rows]

\* converter.py: the call transform_data(df, mapping, fx_rate)
TransformCall ==
    /\ pc = "transform"
    /\ result_df' = transform_data(df, mapping, fx_rate)
    /\ calls' = Append(calls, "transform_data")
    /\ pc' = IF result_df'.exc = "none" THEN "export" ELSE "raised"
    /\ UNCHANGED <<numVars, fxVars, appVars, df, mapping, fx_rate, csv_bytes>>

\* converter.py: the call export_csv(result_df)
ExportCall ==
    /\ pc = "export"
    /\ \E ties_up \in BOOLEAN : csv_bytes' = export_csv(result_df.rows, ties_up)
    /\ calls' = Append(calls, "export_csv")
    /\ pc' = "exported"
    /\ UNCHANGED <<numVars, fxVars, appVars, df, mapping, fx_rate, result_df>>

NextConv == TransformCall \/ ExportCall

SpecConv == InitConv /\ [][NextConv]_vars

\* The k-th smallest element of a set of integers.
Nth(P, k) == CHOOSE p \in P : Cardinality({q \in P : q < p}) = k - 1

\* The positions at which token c occurs in b.
PositionsOf(b, c) == {i \in 1..Len(b) : b[i] = c}

\* The positions at which a CR LF pair starts in b.
CrLfAt(b) == {i \in 1..(Len(b) - 1) : b[i] = CR /\ b[i + 1] = LF}

\* The k-th CRLF-terminated line of b, without its terminator.
LineOf(b, k) ==
    LET P == CrLfAt(b)
        from == IF k = 1 THEN 1 ELSE Nth(P, k - 1) + 2
    IN SubSeq(b, from, Nth(P, k) - 1)

\* The k-th field of a line, fields being separated by semicolons.
FieldOf(line, k) ==
    LET P == PositionsOf(line, ";")
        from == IF k = 1 THEN 1 ELSE Nth(P, k - 1) + 1
        to == IF k = Cardinality(P) + 1 THEN Len(line) ELSE Nth(P, k) - 1
    IN SubSeq(line, from, to)

\* [-] digits "," digit digit
IsAmountText(t) ==
    LET body == IF t # <<>> /\ t[1] = "-" THEN Tail(t) ELSE t
    IN /\ Len(body) >= 4
       /\ body[Len(body) - 2] = ","
       /\ AllDigits(SubSeq(body, 1, Len(body) - 3))
       /\ AllDigits(SubSeq(body, Len(body) - 1, Len(body)))

\* The frame of the file for n records: the byte-order mark, then n + 2 lines
\* each ended by CRLF, the first the header and the last the sentinel.
FileFrame(bytes, n) ==
    LET body == SubSeq(bytes, 4, Len(bytes))
    IN /\ Len(bytes) >= 3 /\ SubSeq(bytes, 1, 3) = BOM
       /\ Cardinality(CrLfAt(body)) = n + 2
       /\ Len(body) - 1 \in CrLfAt(body)
       /\ LineOf(body, 1) = Encode(HeaderLine)
       /\ LineOf(body, n + 2) = Encode(SentinelLine)

\* The data line of record i: three fields; the date; the description with
\* its semicolons replaced and then cut to 100 characters.
DataLineFields(bytes, rows, i) ==
    LET line == LineOf(SubSeq(bytes, 4, Len(bytes)), i + 1)
        text == Replace(rows[i].Beskrivning, ";", <<",">>)
        cut == IF Len(text) > 100 THEN SubSeq(text, 1, 100) ELSE text
    IN /\ Cardinality(PositionsOf(line, ";")) = 2
       /\ FieldOf(line, 1) = Encode(AsStr(rows[i].Datum))
       /\ FieldOf(line, 2) = Encode(cut)

\* The amount field of record i has two fractional digits after a comma and
\* is the amount rounded to hundredths.
AmountField(bytes, rows, i) ==
    LET field == FieldOf(LineOf(SubSeq(bytes, 4, Len(bytes)), i + 1), 3)
        back == ParseDecimal(Replace(field, ",", <<".">>))
    IN /\ IsAmountText(field)
       /\ IsNum(back)
       /\ Abs(back.v - rows[i].Belopp.v) <= 50

\* C7 as claimed: for every dataset the file is the byte-order mark, the
\* header, one line per record in order and the sentinel, each ended by CRLF;
\* every data line has three fields, the description with semicolons replaced
\* and cut to 100 characters, the amount with two fractional digits after a
\* comma.
C7_ExactFormat ==
    pc = "exported" =>
        /\ FileFrame(csv_bytes, Len(result_df.rows))
        /\ \A i \in 1..Len(result_df.rows) :
              /\ DataLineFields(csv_bytes, result_df.rows, i)
              /\ AmountField(csv_bytes, result_df.rows, i)

\* C7 amended: as claimed for every record whose amount is a number; an
\* amount that is NaN is written as the text nan.
C7_ExactFormatOfNumbers ==
    pc = "exported" =>
        /\ FileFrame(csv_bytes, Len(result_df.rows))
        /\ \A i \in 1..Len(result_df.rows) :
              /\ DataLineFields(csv_bytes, result_df.rows, i)
              /\ IF IsNum(result_df.rows[i].Belopp)
                 THEN AmountField(csv_bytes, result_df.rows, i)
                 ELSE FieldOf(LineOf(SubSeq(csv_bytes, 4, Len(csv_bytes)), i + 1), 3)
                         = <<"n", "a", "n">>

\* C7 witness: two records exported, the first with a description of 150
\* semicolons and the amount 1234.565, the second with the amount -45.
C7_Witness ==
    /\ pc = "exported"
    /\ Len(result_df.rows) = 2
    /\ result_df.rows[1].Beskrivning = Repeat(";", 150)
    /\ result_df.rows[1].Belopp = Num(12345650)
    /\ result_df.rows[2].Belopp = Num(-450000)
    /\ FieldOf(LineOf(SubSeq(csv_bytes, 4, Len(csv_bytes)), 2), 2) = Repeat(",", 100)
    /\ FieldOf(LineOf(SubSeq(csv_bytes, 4, Len(csv_bytes)), 2), 3)
          = <<"1", "2", "3", "4", ",", "5", "7">>
    /\ FieldOf(LineOf(SubSeq(csv_bytes, 4, Len(csv_bytes)), 3), 3)
          = <<"-", "4", "5", ",", "0", "0">>

\* The amount the claim gives row i: the parsed Amount, less the absolute
\* value of the parsed Fee when Fee is mapped (0 when the fee is missing or
\* unparsable), times the rate when one is supplied and is not 1.  Amounts and
\* rates drawn are whole hundredths, so the product is exact.
ClaimedAmount(i) ==
    LET row == df.rows[i]
        amount == ParseNumericCell(row[mapping["Belopp"]]).v
        fee == IF "Fee" \in DOMAIN mapping
               THEN LET f == ParseNumericCell(row[mapping["Fee"]])
                    IN IF IsNum(f) THEN Abs(f.v) ELSE 0
               ELSE 0
        net == amount - fee
    IN IF fx_rate = None \/ fx_rate.v = Scale THEN net
       ELSE (net \div 100) * (fx_rate.v \div 100)

\* C6: every row with a parsable amount gets (Amount - |Fee|), the fee
\* subtracted before the FX step, multiplied by the rate exactly when a rate
\* is supplied and is not 1.
C6_AmountFormula ==
    ("transform_data" \in Range(calls) /\ result_df.exc = "none") =>
        \A i \in 1..Len(df.rows) :
            IsNum(ParseNumericCell(df.rows[i][mapping["Belopp"]])) =>
                /\ IsNum(result_df.rows[i].Belopp)
                /\ result_df.rows[i].Belopp.v = ClaimedAmount(i)

\* C6 witness: Fee mapped, a negative fee of 2.50 taken off 1234.56 and the
\* difference multiplied by 11.43.
C6_Witness ==
    /\ "transform_data" \in Range(calls)
    /\ result_df.exc = "none"
    /\ "Fee" \in DOMAIN mapping
    /\ fx_rate = Num(114300)
    /\ Len(df.rows) = 2
    /\ ParseNumericCell(df.rows[2][mapping["Belopp"]]) = Num(12345600)
    /\ ParseNumericCell(df.rows[2][mapping["Fee"]]) = Num(-25000)
    /\ result_df.rows[2].Belopp = Num(140824458)

\* C5: a cell that cannot be parsed does not abort the batch: transform_data
\* returns one record per input row, in order, the unparsable date or amount
\* carried as an invalid marker, each row transformed as it is alone, and
\* export_csv writes a line for every row.
C5_BadCellsDoNotAbort ==
    "transform_data" \in Range(calls) =>
        /\ result_df.exc = "none"
        /\ Len(result_df.rows) = Len(df.rows)
        /\ \A i \in 1..Len(df.rows) :
              /\ result_df.rows[i] =
                    transform_data([df EXCEPT !.rows = <<df.rows[i]>>],
                                   mapping, fx_rate).rows[1]
              /\ ~IsNum(ParseNumericCell(df.rows[i][mapping["Belopp"]]))
                    => result_df.rows[i].Belopp = NaN
              /\ ParseDateCell(df.rows[i][mapping["Datum"]]).kind # "date"
                    => result_df.rows[i].Datum = NA
        /\ pc = "exported" =>
              Cardinality(CrLfAt(csv_bytes)) = Len(df.rows) + 2

\* ------------------------------------------------------ the script, one run

FlowColumns == <<"Date", "Text", "Amount", "Fee", "Ref">>

FlowRow(date, text, amount, fee, ref) ==
    [Date |-> date, Text |-> text, Amount |-> amount, Fee |-> fee, Ref |-> ref]

\* The tables a run may be given: clean rows; rows with a missing date and an
\* unparsable amount; a row whose date cannot be parsed; no valid date at all.
FlowTables ==
    { [columns |-> FlowColumns, rows |->
         << FlowRow(<<"3", "0", "/", "0", "1", "/", "2", "0", "2", "4">>,
                    <<"C", "o", "f", "f", "e", "e">>,
                    <<"-", "4", "5", ",", "0", "0">>, <<"1", ",", "0", "0">>, <<"A", "1">>),
            FlowRow(<<"3", "1", "/", "0", "1", "/", "2", "0", "2", "4">>,
                    <<" ", "R", "e", "n", "t", ";", " ", "J", "u", "l", "y">>,
                    <<"1", " ", "2", "3", "4", ",", "5", "6">>,
                    <<"-", "2", ",", "5", "0">>, <<"A", "2">>),
            FlowRow(<<"2", "0", "2", "4", "-", "0", "2", "-", "0", "1">>,
                    <<"C", "a", "r", "d">>, <<UMINUS, "5">>, <<>>, <<"A", "3">>) >>],
      [columns |-> FlowColumns, rows |->
         << FlowRow(<<"3", "1", "/", "0", "1", "/", "2", "0", "2", "4">>,
                    <<"C", "o", "f", "f", "e", "e">>,
                    <<"-", "4", "5", ",", "0", "0">>, NA, <<"B", "1">>),
            FlowRow(NA, <<"x">>, <<"a", "b", "c">>, <<"1">>, <<"B", "2">>),
            FlowRow(<<"0", "2", ".", "0", "2", ".", "2", "0", "2", "4">>,
                    <<"y">>, <<"1", "0", ",", "5">>, <<"n", "o", "n", "e">>,
                    <<"B", "3">>) >>],
      [columns |-> FlowColumns, rows |->
         << FlowRow(<<"j", "u", "n", "k">>, <<"y">>, <<"1", "0">>, <<>>, <<"C", "1">>),
            FlowRow(<<"3", "1", "/", "0", "1", "/", "2", "0", "2", "4">>,
                    <<"z">>, <<"2">>, <<>>, <<"C", "2">>) >>],
      [columns |-> FlowColumns, rows |->
         << FlowRow(NA, <<"z">>, <<"1">>, NA, <<"D", "1">>) >>] }

\* The columns of cols the arrangement puts in bucket k, in column order.
RECURSIVE Bucket(_, _, _, _)
Bucket(cols, arrangement, k, i) ==
    IF i > Len(cols) THEN <<>>
    ELSE (IF arrangement[i] = k THEN <<cols[i]>> ELSE <<>>)
         \o Bucket(cols, arrangement, k, i + 1)

\* What sort_items returns for an arrangement of the columns over the five
\* buckets (0: Available columns, 1..4: the fields).
SortItems(cols, arrangement) ==
    <<[header |-> "Available columns", items |-> Bucket(cols, arrangement, 0, 1)]>>
    \o [k \in 1..Len(ALL_MAPPING_FIELDS) |->
           [header |-> DISPLAY_NAMES[ALL_MAPPING_FIELDS[k]],
            items |-> Bucket(cols, arrangement, k, 1)]]

Arrangements(cols) == [1..Len(cols) -> 0..Len(ALL_MAPPING_FIELDS)]

SavedPreset ==
    [name |-> "bank",
     mapping |-> [Datum |-> "Date", Beskrivning |-> "Text", Belopp |-> "Amount"]]

PresetNames == {"bank", "new"}

FlowCurrencies == {"EUR"}
FlowRefDates == {Date(2024, 7, 15)}

\* The answers of the rate service a run may get: a request error, an
\* observation, an observation of 0, a negative observation, a list that
\* holds no object.
FlowResponses ==
    LET day == JStr(<<"2", "0", "2", "4", "-", "0", "6", "-", "2", "8">>)
        late == JStr(<<"2", "0", "2", "4", "-", "0", "7", "-", "0", "2">>)
    IN { [kind |-> "RequestException", status |-> 0, body |-> [t |-> "none", items |-> <<>>]],
         Ok200(JList(<<JObj([date |-> day, value |-> JStr(<<"1", "1", ".", "4", "3">>)]),
                       JObj([date |-> late, value |-> JStr(<<"1", "2">>)])>>)),
         Ok200(JList(<<JObj([date |-> day, value |-> JNum(0)])>>)),
         Ok200(JList(<<JObj([date |-> day, value |-> JStr(<<"-", "2", ".", "5">>)])>>)),
         Ok200(JList(<<JNonObj>>)) }

\* What the user may type in the manual rate field.
ManualRates ==
    { <<>>, <<" ">>, <<"a", "b", "c">>, <<"0">>, <<"-", "2">>, <<"1">>,
      <<"9", ",", "5">> }

Init ==
    /\ pc = "upload"
    /\ NumIdle
    /\ FxIdle
    /\ ConvIdle
    /\ sorted_items = <<>> /\ mapping_complete = FALSE
    /\ presets = <<SavedPreset>>
    /\ manual_rate = <<>> /\ date_from = NoDate /\ date_to = NoDate
    /\ filtered_df = <<>>

\* Lines 55-57: no file has been uploaded; the script stops.
NoFile ==
    /\ pc = "upload"
    /\ pc' = "stopped_no_file"
    /\ UNCHANGED <<numVars, fxVars, convVars, appVars>>

\* Lines 86-88: the file cannot be read; the script stops.
ReadFails ==
    /\ pc = "upload"
    /\ pc' = "stopped_unreadable"
    /\ UNCHANGED <<numVars, fxVars, convVars, appVars>>

\* Lines 59-93: the file is read into df.
ReadFile ==
    /\ pc = "upload"
    /\ df' \in FlowTables
    /\ pc' = "mapping"
    /\ UNCHANGED <<numVars, fxVars, appVars, mapping, fx_rate, result_df, csv_bytes, calls>>

\* Lines 134-176 for an arrangement that leaves a required field without
\* exactly one column: the warning, and st.stop().
MappingIncomplete ==
    /\ pc = "mapping"
    /\ \E arrangement \in Arrangements(df.columns) :
          LET parsed == ParseSortedItems(SortItems(df.columns, arrangement))
          IN /\ ~parsed.mapping_complete
             /\ sorted_items' = SortItems(df.columns, arrangement)
             /\ mapping' = parsed.mapping
             /\ mapping_complete' = parsed.mapping_complete
    /\ pc' = "stopped_mapping"
    /\ UNCHANGED <<numVars, fxVars, df, fx_rate, result_df, csv_bytes, calls, presets,
                   manual_rate, date_from, date_to, filtered_df>>

\* Lines 134-173 with Save pressed, a name given and the mapping complete:
\* the preset replaces the one of its name or is appended, and st.rerun()
\* ends this run.
SavePreset ==
    /\ pc = "mapping"
    /\ \E arrangement \in Arrangements(df.columns), new_preset_name \in PresetNames :
          LET parsed == ParseSortedItems(SortItems(df.columns, arrangement))
          IN /\ parsed.mapping_complete
             /\ sorted_items' = SortItems(df.columns, arrangement)
             /\ mapping' = parsed.mapping
             /\ mapping_complete' = parsed.mapping_complete
             /\ presets' = Append(SelectSeq(presets, LAMBDA q : q.name # new_preset_name),
                                  [name |-> new_preset_name, mapping |-> parsed.mapping])
    /\ pc' = "rerun"
    /\ UNCHANGED <<numVars, fxVars, df, fx_rate, result_df, csv_bytes, calls,
                   manual_rate, date_from, date_to, filtered_df>>

\* Lines 134-176 for a complete mapping, Save not pressed: on to step 3.
MappingComplete ==
    /\ pc = "mapping"
    /\ \E arrangement \in Arrangements(df.columns) :
          LET parsed == ParseSortedItems(SortItems(df.columns, arrangement))
          IN /\ parsed.mapping_complete
             /\ sorted_items' = SortItems(df.columns, arrangement)
             /\ mapping' = parsed.mapping
             /\ mapping_complete' = parsed.mapping_complete
    /\ pc' = "currency"
    /\ UNCHANGED <<numVars, fxVars, df, fx_rate, result_df, csv_bytes, calls, presets,
                   manual_rate, date_from, date_to, filtered_df>>

\* Lines 191-194 with SEK selected: fx_rate stays None.
SelectHomeCurrency ==
    /\ pc = "currency"
    /\ currency' = "SEK"
    /\ fx_rate' = None
    /\ pc' = "transform"
    /\ UNCHANGED <<numVars, appVars, ref_date, resp, fx_result, df, mapping, result_df,
                   csv_bytes, calls>>

\* Lines 191-205 with another currency selected: the reference date is
\* entered (the widget offers the latest date of the file, or today, and takes
\* any date) and get_fx_rate is called; an exception leaving it ends the run.
\* The cache in front of get_fx_rate hands back what an earlier call
\* returned, which is among the results drawn here.
FetchRate ==
    /\ pc = "currency"
    /\ \E c \in FlowCurrencies, r \in FlowRefDates, answer \in FlowResponses :
          /\ currency' = c
          /\ ref_date' = r
          /\ resp' = answer
          /\ fx_result' = get_fx_rate(c, r, answer)
    /\ calls' = Append(calls, "get_fx_rate")
    /\ pc' = IF fx_result'.kind = "return" THEN "rate" ELSE "crashed"
    /\ UNCHANGED <<numVars, appVars, df, mapping, fx_rate, result_df, csv_bytes>>

\* Lines 207-224: the manual rate field is read and the rate chosen, or the
\* script stops for want of one.
EnterRate ==
    /\ pc = "rate"
    /\ \E manual \in ManualRates :
          /\ manual_rate' = manual
          /\ fx_rate' = ChooseRate(manual, fx_result.rate).rate
          /\ pc' = IF ChooseRate(manual, fx_result.rate).stop = "" THEN "transform"
                   ELSE "stopped_" \o ChooseRate(manual, fx_result.rate).stop
    /\ UNCHANGED <<numVars, fxVars, df, mapping, result_df, csv_bytes, calls,
                   sorted_items, mapping_complete, presets, date_from, date_to, filtered_df>>

\* Line 229: transform_data(df, mapping, fx_rate); an exception is reported
\* as a conversion error (lines 261-262).
Transform ==
    /\ pc = "transform"
    /\ result_df' = transform_data(df, mapping, fx_rate)
    /\ calls' = Append(calls, "transform_data")
    /\ pc' = IF result_df'.exc = "none" THEN "filter" ELSE "conversion_error"
    /\ UNCHANGED <<numVars, fxVars, appVars, df, mapping, fx_rate, csv_bytes>>

\* The valid dates among the records.
ValidDates(rows) ==
    {DatumDate(rows[i].Datum) : i \in {j \in 1..Len(rows) : DatumDate(rows[j].Datum) # NoDate}}

\* The days from the earliest to the latest of a set of dates.
DaysBetween(D) ==
    LET lo == CHOOSE d \in D : \A e \in D : DateLeq(d, e)
        hi == CHOOSE d \in D : \A e \in D : DateLeq(e, d)
    IN {FromOrdinal(n) : n \in ToOrdinal(lo)..ToOrdinal(hi)}

\* Lines 232-248: the From and To dates are entered, each between the
\* earliest and the latest date of the records, and the filter applied.
Filter ==
    /\ pc = "filter"
    /\ ValidDates(result_df.rows) # {}
    /\ \E from \in DaysBetween(ValidDates(result_df.rows)),
          to \in DaysBetween(ValidDates(result_df.rows)) :
          /\ date_from' = from
          /\ date_to' = to
          /\ filtered_df' = RangeFilter(result_df.rows, from, to)
    /\ pc' = "export"
    /\ UNCHANGED <<numVars, fxVars, convVars, sorted_items, mapping_complete, presets,
                   manual_rate>>

\* Lines 232-248 when no record has a valid date: min_date and max_date are
\* NaT.  Either the date inputs raise on it (a conversion error), or they
\* hand NaT back and the mask is false for every record.
FilterWithoutDates ==
    /\ pc = "filter"
    /\ ValidDates(result_df.rows) = {}
    /\ date_from' = NoDate
    /\ date_to' = NoDate
    /\ \/ /\ pc' = "conversion_error"
          /\ filtered_df' = filtered_df
       \/ /\ pc' = "export"
          /\ filtered_df' = RangeFilter(result_df.rows, NoDate, NoDate)
    /\ UNCHANGED <<numVars, fxVars, convVars, sorted_items, mapping_complete, presets,
                   manual_rate>>

\* Lines 251-260: export_csv(filtered_df) and the download button.
Export ==
    /\ pc = "export"
    /\ \E ties_up \in BOOLEAN : csv_bytes' = export_csv(filtered_df, ties_up)
    /\ calls' = Append(calls, "export_csv")
    /\ pc' = "done"
    /\ UNCHANGED <<numVars, fxVars, appVars, df, mapping, fx_rate, result_df>>

Next ==
    \/ NoFile \/ ReadFails \/ ReadFile
    \/ MappingIncomplete \/ SavePreset \/ MappingComplete
    \/ SelectHomeCurrency \/ FetchRate \/ EnterRate
    \/ Transform \/ Filter \/ FilterWithoutDates \/ Export

Spec == Init /\ [][Next]_vars

\* The columns the user left in the bucket of a field.
Assigned(field) == GroupItems(sorted_items, DISPLAY_NAMES[field])

\* C4: transform_data is called only when Date, Description and Amount each
\* have exactly one column; otherwise the run reports the mapping and stops
\* before the FX step, the transformation and the export.  Fee reaches the
\* transformation exactly when its bucket holds one column.
C4_MappingGuardsTransform ==
    pc \notin {"upload", "mapping", "stopped_no_file", "stopped_unreadable"} =>
        LET complete == \A f \in Range(FORTNOX_FIELDS) : Len(Assigned(f)) = 1
        IN /\ ~complete =>
                 /\ pc = "stopped_mapping"
                 /\ calls = <<>> /\ result_df = NoFrame /\ csv_bytes = <<>>
           /\ "transform_data" \in Range(calls) =>
                 /\ complete
                 /\ \A f \in Range(FORTNOX_FIELDS) :
                       f \in DOMAIN mapping /\ mapping[f] = Assigned(f)[1]
           /\ "Fee" \in DOMAIN mapping <=> Len(Assigned("Fee")) = 1
           /\ "Fee" \in DOMAIN mapping => mapping["Fee"] = Assigned("Fee")[1]

\* C4 witness: the run is through with two columns left in the Fee bucket,
\* and Fee was not handed to the transformation.
C4_Witness ==
    /\ pc = "done"
    /\ calls = <<"transform_data", "export_csv">>
    /\ Len(Assigned("Fee")) = 2
    /\ "Fee" \notin DOMAIN mapping
    /\ mapping = [Datum |-> "Date", Beskrivning |-> "Text", Belopp |-> "Amount"]

\* C3: with a source currency other than SEK, transform_data is reached only
\* with the manual rate, when one is entered, or else the rate the resolver
\* returned; with no rate from the resolver and the manual field empty or not
\* a number the run stops, and neither transform_data nor export_csv runs.
C3_RateIsManualOrResolved ==
    (currency # "SEK" /\ pc \notin {"rate", "crashed"}) =>
        /\ "transform_data" \in Range(calls) =>
              IF Strip(manual_rate) # <<>>
              THEN IsNum(FloatOfText(manual_rate)) /\ fx_rate = FloatOfText(manual_rate)
              ELSE fx_rate = fx_result.rate /\ fx_rate # None
        /\ (fx_result.rate = None
              /\ (Strip(manual_rate) = <<>> \/ ~IsNum(FloatOfText(manual_rate)))) =>
              /\ pc \in {"stopped_no_rate", "stopped_invalid_rate"}
              /\ calls = <<"get_fx_rate">>
              /\ result_df = NoFrame /\ csv_bytes = <<>>

\* C3 witness: the resolver found no rate, the manual field holds only a
\* space, and the run has stopped with the no-rate error.
C3_Witness ==
    /\ pc = "stopped_no_rate"
    /\ currency = "EUR"
    /\ resp.kind = "RequestException"
    /\ fx_result.rate = None
    /\ manual_rate = <<" ">>
    /\ calls = <<"get_fx_rate">>

\* C10: transform_data is never called with a rate that is zero or negative.
C10_RateIsPositive ==
    ("transform_data" \in Range(calls) /\ fx_rate # None) => fx_rate.v > 0

\* C9: the filter retains exactly the records whose date is valid and lies
\* in [From, To], both bounds included, in their original order; records
\* without a valid date are left out, and From after To retains nothing.
C9_FilterRetainsExactlyInRange ==
    pc \in {"export", "done"} =>
        LET rows == result_df.rows
            day(i) == ToOrdinal(FromIsoFormat(rows[i].Datum))
            kept == {i \in 1..Len(rows) :
                        /\ rows[i].Datum # NA
                        /\ date_from # NoDate /\ date_to # NoDate
                        /\ ToOrdinal(date_from) <= day(i)
                        /\ day(i) <= ToOrdinal(date_to)}
        IN /\ Len(filtered_df) = Cardinality(kept)
           /\ \A k \in 1..Len(filtered_df) : filtered_df[k] = rows[Nth(kept, k)]
           /\ \A k \in 1..Len(filtered_df) : filtered_df[k].Datum # NA
           /\ (date_from # NoDate /\ date_to # NoDate
                 /\ ToOrdinal(date_from) > ToOrdinal(date_to)) => filtered_df = <<>>

\* C9 witness: three records dated 2024-01-31, no date and 2024-02-02,
\* filtered with From 2024-01-31 and To 2024-02-02: the two dated records are
\* retained, each on a bound.
C9_Witness ==
    /\ pc = "export"
    /\ Len(result_df.rows) = 3
    /\ result_df.rows[2].Datum = NA
    /\ date_from = Date(2024, 1, 31)
    /\ date_to = Date(2024, 2, 2)
    /\ filtered_df = <<result_df.rows[1], result_df.rows[3]>>

====
